---------------------------- MODULE Spec2Model ----------------------------
(***************************************************************************)
(* A model of the record store of Backend_Project.py: the class            *)
(* MovieDatabase over the one SQLite table `movies`, with the free         *)
(* functions that delegate to the module-level instance `db`.              *)
(*                                                                         *)
(* Text is modelled as a sequence of one-character strings, so that        *)
(* emptiness, whitespace, substrings, LIKE patterns and numeric prefixes   *)
(* are computed and not assumed: "" is <<>>, "4a" is <<"4", "a">>.         *)
(*                                                                         *)
(* Every method is one action: it runs to completion (connect, execute,    *)
(* commit, return) before the next call starts, as the single-threaded     *)
(* caller drives it.  Failures of the storage engine itself (sqlite3.Error *)
(* other than IntegrityError: an unreadable file, a full disk) are outside *)
(* the model.                                                              *)
(*                                                                         *)
(* Spec drives the store with keys that are empty, blank and given;        *)
(* SpecStats with ratings that are empty, numeric and text; SpecSearch     *)
(* with names, directors and filters that differ in case and hold the      *)
(* characters _ and %; SpecFields with calls that give and leave out the   *)
(* optional arguments.  The four share every action and differ only in the *)
(* arguments they draw.                                                    *)
(***************************************************************************)
EXTENDS Integers, Sequences, FiniteSets, TLC

VARIABLES
    movies,     \* the rows of table movies, each a record with its id
    seq,        \* sqlite_sequence.seq of table movies: the largest rowid ever used
    open,       \* connection objects that were opened and are not yet closed
    call,       \* the last call made to the store, with its arguments
    ret,        \* what that call returned
    assigned,   \* history: every id a successful add_movie has assigned
    deleted     \* history: every id a successful delete_movie has removed

vars == <<movies, seq, open, call, ret, assigned, deleted>>

\* Bounds of the model: add_movie is taken while the id it assigns is at most
\* MaxId, and at most MaxOpen open connections are counted.
MaxId == 2
MaxOpen == 2

---------------------------------------------------------------------------
\* Text

\* Python's truth value of a str (`if value`, `not movie_id`).
Truthy(s) == Len(s) > 0

IsSpace(c) == c = " "

Digits == <<"0", "1", "2", "3", "4", "5", "6", "7", "8", "9">>

IsDigit(c) == \E i \in 1..Len(Digits) : Digits[i] = c

DigitValue(c) == (CHOOSE i \in 1..Len(Digits) : Digits[i] = c) - 1

UpperCase == <<"A", "B", "C", "D", "E", "F", "G", "H", "I", "J", "K", "L", "M",
               "N", "O", "P", "Q", "R", "S", "T", "U", "V", "W", "X", "Y", "Z">>

LowerCase == <<"a", "b", "c", "d", "e", "f", "g", "h", "i", "j", "k", "l", "m",
               "n", "o", "p", "q", "r", "s", "t", "u", "v", "w", "x", "y", "z">>

\* SQLite's LIKE folds the case of ASCII letters only.
Fold(c) ==
    IF \E i \in 1..Len(UpperCase) : UpperCase[i] = c
    THEN LowerCase[CHOOSE i \in 1..Len(UpperCase) : UpperCase[i] = c]
    ELSE c

Drop(s, n) == SubSeq(s, n + 1, Len(s))

RECURSIVE LStrip(_)
LStrip(s) == IF s # <<>> /\ IsSpace(Head(s)) THEN LStrip(Tail(s)) ELSE s

RECURSIVE RStrip(_)
RStrip(s) ==
    IF s # <<>> /\ IsSpace(s[Len(s)]) THEN RStrip(SubSeq(s, 1, Len(s) - 1)) ELSE s

\* str.strip()
strip(s) == RStrip(LStrip(s))

\* SQLite's LIKE operator, `text LIKE pattern` without ESCAPE: % matches any run
\* of characters (the empty one too), _ matches exactly one character, every
\* other character matches itself up to the case of ASCII letters.
RECURSIVE Like(_, _)
Like(pattern, text) ==
    IF pattern = <<>> THEN text = <<>>
    ELSE IF Head(pattern) = "%"
         THEN \E k \in 0..Len(text) : Like(Tail(pattern), Drop(text, k))
    ELSE IF text = <<>> THEN FALSE
    ELSE IF Head(pattern) = "_" THEN Like(Tail(pattern), Tail(text))
    ELSE Fold(Head(pattern)) = Fold(Head(text)) /\ Like(Tail(pattern), Tail(text))

\* The value of the leading run of digits of s, continuing from acc.
RECURSIVE DigitPrefix(_, _)
DigitPrefix(s, acc) ==
    IF s # <<>> /\ IsDigit(Head(s))
    THEN DigitPrefix(Tail(s), 10 * acc + DigitValue(Head(s)))
    ELSE acc

\* CAST(text AS REAL): leading spaces are skipped, the longest prefix that reads
\* as a number is converted, and text with no such prefix is 0.0.  The texts of
\* this model hold digits, letters and spaces, so the number is a natural.
CastReal(s) == DigitPrefix(LStrip(s), 0)

\* round(x, 2) of x = num / den, in hundredths: the nearest hundredth, a tie
\* going to the even one.
Round2(num, den) ==
    LET q == (100 * num) \div den
        r == (100 * num) % den
    IN  IF 2 * r > den THEN q + 1
        ELSE IF 2 * r < den THEN q
        ELSE IF q % 2 = 0 THEN q ELSE q + 1

---------------------------------------------------------------------------
\* The table

Columns == <<"movie_id", "movie_name", "release_date", "director",
             "cast", "budget", "duration", "rating">>

\* Variant: the values of director and cast bound to each other's column.
RowMisplaced(id, m) ==
    [id |-> id, movie_id |-> m.movie_id, movie_name |-> m.movie_name,
     release_date |-> m.release_date, director |-> m.cast, cast |-> m.director,
     budget |-> m.budget, duration |-> m.duration, rating |-> m.rating]

\* The row INSERT stores for the eight values of m under rowid id.
Row(id, m) ==
    [id |-> id, movie_id |-> m.movie_id, movie_name |-> m.movie_name,
     release_date |-> m.release_date, director |-> m.director, cast |-> m.cast,
     budget |-> m.budget, duration |-> m.duration, rating |-> m.rating]

Ids(rows) == {r.id : r \in rows}

MaxOf(S) == IF S = {} THEN 0 ELSE CHOOSE x \in S : \A y \in S : y <= x

\* Variant: the column without its UNIQUE constraint.
UniqueConflictNone(rows, movie_id, self_id) == FALSE

\* Variant: a constraint that counts the row being updated itself.
UniqueConflictAnyRow(rows, movie_id, self_id) ==
    \E r \in rows : r.movie_id = movie_id

\* movie_id TEXT NOT NULL UNIQUE: whether storing movie_id in the row self_id
\* (0 for a row being inserted) collides with another row.
UniqueConflict(rows, movie_id, self_id) ==
    \E r \in rows : r.movie_id = movie_id /\ r.id # self_id

\* Variant: INTEGER PRIMARY KEY without AUTOINCREMENT, one more than the largest
\* rowid now in the table.
NextRowidNoAutoincrement(rows, s) == MaxOf(Ids(rows)) + 1

\* id INTEGER PRIMARY KEY AUTOINCREMENT: one more than the largest rowid the
\* table has ever held, which sqlite_sequence remembers across deletes.
NextRowid(rows, s) == MaxOf(Ids(rows) \cup {s}) + 1

\* The rows in the order of their rowid.
RECURSIVE OrderByIdAsc(_)
OrderByIdAsc(rows) ==
    IF rows = {} THEN <<>>
    ELSE LET r == CHOOSE r \in rows : \A q \in rows : r.id <= q.id
         IN  <<r>> \o OrderByIdAsc(rows \ {r})

\* ORDER BY id DESC
RECURSIVE OrderByIdDesc(_)
OrderByIdDesc(rows) ==
    IF rows = {} THEN <<>>
    ELSE LET r == CHOOSE r \in rows : \A q \in rows : q.id <= r.id
         IN  <<r>> \o OrderByIdDesc(rows \ {r})

---------------------------------------------------------------------------
\* What the methods return

\* (success, message) of add_movie, update_movie and delete_movie; arg is the
\* movie_id the message quotes, when it quotes one.
Status(ok, msg, arg) == [ok |-> ok, msg |-> msg, arg |-> arg]

None == [none |-> TRUE]

Required == Status(FALSE, "Movie ID and Movie Name are required!", <<>>)

AlreadyExists(movie_id) == Status(FALSE, "Movie ID '...' already exists!", movie_id)

---------------------------------------------------------------------------
\* add_movie

add_movie_ret(rows, m) ==
    IF ~Truthy(m.movie_id) \/ ~Truthy(m.movie_name) THEN Required
    ELSE IF UniqueConflict(rows, m.movie_id, 0) THEN AlreadyExists(m.movie_id)
    ELSE Status(TRUE, "Movie added successfully!", <<>>)

\* Variant: INSERT OR REPLACE, the colliding row gives way to the new one.
add_movie_rows_replace(rows, s, m) ==
    IF ~Truthy(m.movie_id) \/ ~Truthy(m.movie_name) THEN rows
    ELSE {r \in rows : r.movie_id # m.movie_id} \cup {Row(NextRowid(rows, s), m)}

add_movie_rows(rows, s, m) ==
    IF add_movie_ret(rows, m).ok THEN rows \cup {Row(NextRowid(rows, s), m)}
    ELSE rows

---------------------------------------------------------------------------
\* view_all_movies

\* Variant: the SELECT without its ORDER BY id DESC.
view_all_movies_unordered(rows) == OrderByIdAsc(rows)

view_all_movies_rows(rows) == OrderByIdDesc(rows)

---------------------------------------------------------------------------
\* search_movies

\* The columns whose filter value is non-empty: `if value`.
Conditions(filter) == {i \in 1..Len(Columns) : Truthy(filter[Columns[i]])}

\* WHERE c1 LIKE '%v1%' OR c2 LIKE '%v2%' OR ...
Matches(r, filter) ==
    \E i \in Conditions(filter) :
        Like(<<"%">> \o filter[Columns[i]] \o <<"%">>, r[Columns[i]])

\* No ORDER BY: the rows come in the order of the table scan, by rowid.
search_movies_rows(rows, filter) ==
    IF Conditions(filter) = {} THEN view_all_movies_rows(rows)
    ELSE OrderByIdAsc({r \in rows : Matches(r, filter)})

\* Connections one call of search_movies opens: its own, and that of the
\* view_all_movies it calls when no filter value is given.
search_movies_connections(filter) == IF Conditions(filter) = {} THEN 2 ELSE 1

---------------------------------------------------------------------------
\* update_movie

\* Variant: the collision of movie_id looked for before the row of record_id.
update_movie_ret_conflict_first(rows, record_id, m) ==
    IF ~Truthy(m.movie_id) \/ ~Truthy(m.movie_name) THEN Required
    ELSE IF UniqueConflict(rows, m.movie_id, record_id) THEN AlreadyExists(m.movie_id)
    ELSE IF record_id \notin Ids(rows)
         THEN Status(FALSE, "No record found to update!", <<>>)
    ELSE Status(TRUE, "Movie updated successfully!", <<>>)

update_movie_ret(rows, record_id, m) ==
    IF ~Truthy(m.movie_id) \/ ~Truthy(m.movie_name) THEN Required
    ELSE IF record_id \notin Ids(rows)
         THEN Status(FALSE, "No record found to update!", <<>>)
    ELSE IF UniqueConflict(rows, m.movie_id, record_id) THEN AlreadyExists(m.movie_id)
    ELSE Status(TRUE, "Movie updated successfully!", <<>>)

\* Variant: an UPDATE that keeps the stored value of a column whose new value
\* is empty.
update_movie_rows_keep(rows, record_id, m) ==
    IF update_movie_ret(rows, record_id, m).ok
    THEN LET old == CHOOSE r \in rows : r.id = record_id
             new == Row(record_id, m)
         IN  {r \in rows : r.id # record_id} \cup
             {[c \in DOMAIN new |->
                 IF c # "id" /\ new[c] = <<>> THEN old[c] ELSE new[c]]}
    ELSE rows

update_movie_rows(rows, record_id, m) ==
    IF update_movie_ret(rows, record_id, m).ok
    THEN {r \in rows : r.id # record_id} \cup {Row(record_id, m)}
    ELSE rows

---------------------------------------------------------------------------
\* delete_movie

delete_movie_ret(rows, record_id) ==
    IF record_id \notin Ids(rows)
    THEN Status(FALSE, "No record found to delete!", <<>>)
    ELSE Status(TRUE, "Movie deleted successfully!", <<>>)

delete_movie_rows(rows, record_id) == {r \in rows : r.id # record_id}

---------------------------------------------------------------------------
\* get_movie_by_id

get_movie_by_id_row(rows, record_id) ==
    IF record_id \in Ids(rows) THEN CHOOSE r \in rows : r.id = record_id ELSE None

---------------------------------------------------------------------------
\* get_statistics

RECURSIVE SumCastReal(_)
SumCastReal(rows) ==
    IF rows = {} THEN 0
    ELSE LET r == CHOOSE r \in rows : TRUE
         IN  CastReal(r.rating) + SumCastReal(rows \ {r})

\* SELECT AVG(CAST(rating AS REAL)) FROM movies WHERE rating != '', then
\* round(avg_rating, 2) if avg_rating else 0.  average_rating is in hundredths.
average_rating(rows) ==
    LET rated == {r \in rows : r.rating # <<>>}
    IN  IF rated = {} THEN 0
        ELSE Round2(SumCastReal(rated), Cardinality(rated))

get_statistics_ret(rows) ==
    [total_movies |-> Cardinality(rows), average_rating |-> average_rating(rows)]

---------------------------------------------------------------------------
\* Connections

\* get_connection returns a new sqlite3 connection on every call, and no method
\* closes it: `with con:` commits or rolls back and leaves the connection open.
\* A connection is closed when the runtime finalises the unreferenced object,
\* which it may do as the method returns, during a later call, or not at all.
\* After a call that opened n connections any number of those open so far may
\* be left.
Connections(n) == {k \in 0..MaxOpen : k <= open + n}

---------------------------------------------------------------------------
\* The calls

initialize_database ==
    /\ call' = [op |-> "initialize_database"]
    /\ ret' = None
    /\ open' \in Connections(1)
    /\ UNCHANGED <<movies, seq, assigned, deleted>>

add_movie(m) ==
    LET r == add_movie_ret(movies, m)
        id == NextRowid(movies, seq)
    IN  /\ r.ok => id <= MaxId
        /\ call' = [op |-> "add_movie", m |-> m]
        /\ ret' = r
        /\ movies' = add_movie_rows(movies, seq, m)
        /\ seq' = IF r.ok THEN id ELSE seq
        /\ assigned' = IF r.ok THEN assigned \cup {id} ELSE assigned
        /\ open' \in (IF Truthy(m.movie_id) /\ Truthy(m.movie_name)
                      THEN Connections(1) ELSE Connections(0))
        /\ UNCHANGED deleted

view_all_movies ==
    /\ call' = [op |-> "view_all_movies"]
    /\ ret' = [rows |-> view_all_movies_rows(movies)]
    /\ open' \in Connections(1)
    /\ UNCHANGED <<movies, seq, assigned, deleted>>

search_movies(filter) ==
    /\ call' = [op |-> "search_movies", filter |-> filter]
    /\ ret' = [rows |-> search_movies_rows(movies, filter)]
    /\ open' \in Connections(search_movies_connections(filter))
    /\ UNCHANGED <<movies, seq, assigned, deleted>>

update_movie(record_id, m) ==
    /\ call' = [op |-> "update_movie", record_id |-> record_id, m |-> m]
    /\ ret' = update_movie_ret(movies, record_id, m)
    /\ movies' = update_movie_rows(movies, record_id, m)
    /\ open' \in (IF Truthy(m.movie_id) /\ Truthy(m.movie_name)
                  THEN Connections(1) ELSE Connections(0))
    /\ UNCHANGED <<seq, assigned, deleted>>

delete_movie(record_id) ==
    /\ call' = [op |-> "delete_movie", record_id |-> record_id]
    /\ ret' = delete_movie_ret(movies, record_id)
    /\ movies' = delete_movie_rows(movies, record_id)
    /\ deleted' = IF record_id \in Ids(movies) THEN deleted \cup {record_id}
                  ELSE deleted
    /\ open' \in Connections(1)
    /\ UNCHANGED <<seq, assigned>>

get_movie_by_id(record_id) ==
    /\ call' = [op |-> "get_movie_by_id", record_id |-> record_id]
    /\ ret' = [row |-> get_movie_by_id_row(movies, record_id)]
    /\ open' \in Connections(1)
    /\ UNCHANGED <<movies, seq, assigned, deleted>>

get_statistics ==
    /\ call' = [op |-> "get_statistics"]
    /\ ret' = get_statistics_ret(movies)
    /\ open' \in Connections(1)
    /\ UNCHANGED <<movies, seq, assigned, deleted>>

---------------------------------------------------------------------------
\* The state after `db = MovieDatabase()` on a new database file: __init__ has
\* run initialize_database, the table exists and is empty.
Init ==
    /\ movies = {}
    /\ seq = 0
    /\ open \in {k \in 0..MaxOpen : k <= 1}
    /\ call = [op |-> "initialize_database"]
    /\ ret = None
    /\ assigned = {}
    /\ deleted = {}

\* The record ids a caller passes: those of rows that exist, existed or never did.
RecordIds == 1..MaxId

\* One call, its arguments drawn from the given inputs and filters.
Step(inputs, filters) ==
    \/ initialize_database
    \/ \E m \in inputs : add_movie(m)
    \/ view_all_movies
    \/ \E filter \in filters : search_movies(filter)
    \/ \E record_id \in RecordIds : \E m \in inputs : update_movie(record_id, m)
    \/ \E record_id \in RecordIds : delete_movie(record_id)
    \/ \E record_id \in RecordIds : get_movie_by_id(record_id)
    \/ get_statistics

\* The eight arguments of add_movie and update_movie, and of SearchMovieData;
\* an argument left out takes its default "".
Movie(movie_id, movie_name, director, rating) ==
    [movie_id |-> movie_id, movie_name |-> movie_name, release_date |-> <<>>,
     director |-> director, cast |-> <<>>, budget |-> <<>>, duration |-> <<>>,
     rating |-> rating]

\* Keys: movie_id and movie_name empty, blank and given.
KeyInputs ==
    {Movie(i, n, <<>>, <<>>) : i \in {<<>>, <<" ">>, <<"a">>, <<"b">>},
                               n \in {<<>>, <<" ">>, <<"n">>}}

KeyFilters == {Movie(<<>>, n, <<>>, <<>>) : n \in {<<>>, <<"n">>}}

Next == Step(KeyInputs, KeyFilters)

Spec == Init /\ [][Next]_vars

---------------------------------------------------------------------------
\* Ratings: movie_id given, rating empty, numeric, text, and a number followed
\* by text.
StatsInputs ==
    {Movie(i, <<"n">>, <<>>, g) :
        i \in {<<"a">>, <<"b">>},
        g \in {<<>>, <<"4">>, <<"2">>, <<"a", "b", "c">>, <<"4", "a">>}}

NextStats == Step(StatsInputs, KeyFilters)

SpecStats == Init /\ [][NextStats]_vars

\* Searches: names and directors differing in case, and filters that hold a
\* letter, the character _ and the character %.
SearchInputs ==
    {Movie(i, n, d, <<>>) : i \in {<<"a">>, <<"b">>},
                            n \in {<<"A">>, <<"x", "y">>},
                            d \in {<<>>, <<"B">>}}

SearchFilters ==
    {Movie(<<>>, n, d, <<>>) : n \in {<<>>, <<"a">>, <<"y">>, <<"_">>, <<"%">>},
                               d \in {<<>>, <<"b">>}}

NextSearch == Step(SearchInputs, SearchFilters)

SpecSearch == Init /\ [][NextSearch]_vars

\* The binding of a call's arguments to the eight parameters: movie_id and
\* movie_name are always given, and an optional argument that is left out takes
\* its default "".
Optional(given, c) == IF c \in DOMAIN given THEN given[c] ELSE <<>>

Bind(given) ==
    [movie_id |-> given.movie_id, movie_name |-> given.movie_name,
     release_date |-> Optional(given, "release_date"),
     director |-> Optional(given, "director"),
     cast |-> Optional(given, "cast"),
     budget |-> Optional(given, "budget"),
     duration |-> Optional(given, "duration"),
     rating |-> Optional(given, "rating")]

\* Fields: calls that give no optional argument, some of them, and all of them,
\* each with a value of its own.
FieldGiven ==
    UNION {{[movie_id |-> i, movie_name |-> <<"n">>],
            [movie_id |-> i, movie_name |-> <<"m">>,
             director |-> <<"r">>, rating |-> <<"4">>],
            [movie_id |-> i, movie_name |-> <<"n">>,
             release_date |-> <<"d">>, budget |-> <<"9">>],
            [movie_id |-> i, movie_name |-> <<"m">>,
             release_date |-> <<"d">>, director |-> <<"r">>, cast |-> <<"c">>,
             budget |-> <<"9">>, duration |-> <<"1">>, rating |-> <<"4">>]}
           : i \in {<<"a">>, <<"b">>}}

FieldInputs == {Bind(given) : given \in FieldGiven}

NextFields == Step(FieldInputs, KeyFilters)

SpecFields == Init /\ [][NextFields]_vars

---------------------------------------------------------------------------
\* Properties

HoldsMovieId(rows, movie_id) == \E r \in rows : r.movie_id = movie_id

\* C1: in every reachable state no two stored records have the same movie_id.
MovieIdUnique == \A r, q \in movies : r.movie_id = q.movie_id => r = q

\* C1: a movie_id that a record holds before a call is held after it by that
\* record only, and the record is as it was unless a successful update_movie
\* addressed it or a successful delete_movie removed it: a colliding write
\* neither merges into the holder nor overwrites it.
NoTakeover ==
    \A r \in movies : \A q \in movies' :
        q.movie_id = r.movie_id =>
            /\ q.id = r.id
            /\ \/ q = r
               \/ call'.op = "update_movie" /\ call'.record_id = r.id /\ ret'.ok

\* C1: movie_id is unique in every reachable state, and no call lets a second
\* record take a movie_id that is held.
C1_MovieIdUnique == []MovieIdUnique /\ [][NoTakeover]_vars

\* C1: a colliding add_movie was rejected with two records stored.
C1_Witness ==
    /\ call.op = "add_movie"
    /\ ret = AlreadyExists(call.m.movie_id)
    /\ Cardinality(movies) = 2

\* A rating that reads as a number: after str.strip(), a non-empty run of
\* digits (the texts of this model hold digits, letters and spaces).
IsNumeric(s) ==
    /\ strip(s) # <<>>
    /\ \A i \in 1..Len(strip(s)) : IsDigit(strip(s)[i])

RECURSIVE SumOfRatings(_)
SumOfRatings(rows) ==
    IF rows = {} THEN 0
    ELSE LET r == CHOOSE r \in rows : TRUE
         IN  DigitPrefix(strip(r.rating), 0) + SumOfRatings(rows \ {r})

\* The mean, in hundredths, of the ratings that read as a number; 0 without one.
MeanOfNumericRatings(rows) ==
    LET numeric == {r \in rows : IsNumeric(r.rating)}
    IN  IF numeric = {} THEN 0
        ELSE Round2(SumOfRatings(numeric), Cardinality(numeric))

\* C2: get_statistics returns the number of stored records, and the mean of the
\* ratings that are non-empty and read as a number, 0 when there is none; a
\* rating that is empty or is text is left out of the mean.
C2_Statistics ==
    call.op = "get_statistics" =>
        /\ ret.total_movies = Cardinality(movies)
        /\ ret.average_rating = MeanOfNumericRatings(movies)

\* C3: add_movie with a movie_id or movie_name that is empty or only whitespace
\* fails with the validation message and writes nothing.
C3_BlankRejected ==
    [][(/\ call'.op = "add_movie"
        /\ \/ strip(call'.m.movie_id) = <<>>
           \/ strip(call'.m.movie_name) = <<>>)
       => (ret' = Required /\ movies' = movies /\ seq' = seq)]_vars

\* C4: add_movie with a non-empty movie_name and the movie_id of a stored record
\* fails with the already-exists message and leaves every record, and so their
\* number, as it was.
C4_DuplicateAddRejected ==
    [][(/\ call'.op = "add_movie"
        /\ Truthy(call'.m.movie_name)
        /\ HoldsMovieId(movies, call'.m.movie_id))
       => (ret' = AlreadyExists(call'.m.movie_id) /\ movies' = movies)]_vars

\* C4: such an add_movie has been rejected.
C4_Witness ==
    /\ call.op = "add_movie"
    /\ Truthy(call.m.movie_name)
    /\ ret = AlreadyExists(call.m.movie_id)
    /\ HoldsMovieId(movies, call.m.movie_id)

\* update_movie addressed to a stored record, with the movie_id of another one.
UpdateCollides(rows, c) ==
    /\ c.op = "update_movie"
    /\ c.record_id \in Ids(rows)
    /\ \E r \in rows : r.id # c.record_id /\ r.movie_id = c.m.movie_id

\* update_movie addressed to a stored record, with that record's own movie_id.
UpdateKeepsMovieId(rows, c) ==
    /\ c.op = "update_movie"
    /\ \E r \in rows : r.id = c.record_id /\ r.movie_id = c.m.movie_id

\* C5, as stated: update_movie of a stored record with the movie_id of another
\* record fails with the already-exists message and changes nothing, and with
\* the record's own movie_id and a non-empty movie_name it succeeds.
C5_AsStated ==
    [][/\ UpdateCollides(movies, call') =>
            (ret' = AlreadyExists(call'.m.movie_id) /\ movies' = movies)
       /\ (UpdateKeepsMovieId(movies, call') /\ Truthy(call'.m.movie_name)) =>
            ret'.ok]_vars

\* C5, amended: update_movie of a stored record with a non-empty movie_name and
\* the movie_id of another record fails with the already-exists message and
\* changes nothing (with an empty movie_name it fails with the validation
\* message, and changes nothing either); with the record's own movie_id and a
\* non-empty movie_name it succeeds.
C5_UpdateCollision ==
    [][/\ UpdateCollides(movies, call') =>
            /\ movies' = movies
            /\ ret' = IF Truthy(call'.m.movie_name)
                      THEN AlreadyExists(call'.m.movie_id) ELSE Required
       /\ (UpdateKeepsMovieId(movies, call') /\ Truthy(call'.m.movie_name)) =>
            ret'.ok]_vars

\* C5: an update_movie with another record's movie_id has been rejected.
C5_Witness ==
    /\ UpdateCollides(movies, call)
    /\ Truthy(call.m.movie_name)
    /\ ret = AlreadyExists(call.m.movie_id)

\* C6: update_movie with non-empty movie_id and movie_name, and delete_movie,
\* addressed to an id no record has, fail with the no-record-found message and
\* leave the store as it was, also when the movie_id is that of a stored record.
C6_NotFound ==
    [][/\ (/\ call'.op = "update_movie"
           /\ Truthy(call'.m.movie_id) /\ Truthy(call'.m.movie_name)
           /\ call'.record_id \notin Ids(movies))
          => (/\ ret' = Status(FALSE, "No record found to update!", <<>>)
              /\ movies' = movies)
       /\ (call'.op = "delete_movie" /\ call'.record_id \notin Ids(movies))
          => (/\ ret' = Status(FALSE, "No record found to delete!", <<>>)
              /\ movies' = movies)]_vars

\* C6: an update_movie of an id no record has, with the movie_id of a stored
\* record, has been answered.
C6_Witness ==
    /\ call.op = "update_movie"
    /\ call.record_id \notin Ids(movies)
    /\ Truthy(call.m.movie_name)
    /\ HoldsMovieId(movies, call.m.movie_id)
    /\ ~ret.ok

\* C7: a successful add_movie stores one new record, whose id is greater than
\* every id assigned before, those of deleted records included.
C7_IdNeverReused ==
    [][(call'.op = "add_movie" /\ ret'.ok) =>
        \E r \in movies' :
            /\ r \notin movies
            /\ movies' = movies \cup {r}
            /\ \A i \in assigned \cup deleted \cup Ids(movies) : r.id > i]_vars

\* C7: an add_movie succeeded after the record with the largest id was deleted
\* and the store was empty.
C7_Witness ==
    /\ call.op = "add_movie"
    /\ ret.ok
    /\ deleted # {}
    /\ Cardinality(movies) = 1

\* Whether v occurs in text as a substring, letters compared as the storage
\* engine's default text matching compares them (the case of ASCII letters
\* folded).
IsSubstring(v, text) ==
    \E k \in 0..(Len(text) - Len(v)) :
        \A i \in 1..Len(v) : Fold(text[k + i]) = Fold(v[i])

\* C8: search_movies with a non-empty filter value returns exactly the stored
\* records in which some non-empty filter value occurs as a substring of the
\* field of its name (OR over the filters given), each once; an empty filter
\* value imposes nothing.
C8_SearchIsSubstringOr ==
    (call.op = "search_movies" /\ Conditions(call.filter) # {}) =>
        LET rows == ret.rows
        IN  /\ Len(rows) = Cardinality({rows[i] : i \in 1..Len(rows)})
            /\ {rows[i] : i \in 1..Len(rows)} =
                 {r \in movies :
                    \E i \in 1..Len(Columns) :
                        /\ Truthy(call.filter[Columns[i]])
                        /\ IsSubstring(call.filter[Columns[i]], r[Columns[i]])}

\* C9: after every call no connection that the store opened is open.
C9_ConnectionsReleased == open = 0

\* C10: view_all_movies returns every stored record once, by id descending;
\* after N successful adds and no delete that is N records, the last added first.
C10_ListAll ==
    call.op = "view_all_movies" =>
        LET rows == ret.rows
        IN  /\ Len(rows) = Cardinality(movies)
            /\ {rows[i] : i \in 1..Len(rows)} = movies
            /\ \A i, j \in 1..Len(rows) : i < j => rows[i].id > rows[j].id
            /\ deleted = {} =>
                /\ Len(rows) = Cardinality(assigned)
                /\ rows # <<>> => rows[1].id = MaxOf(assigned)

\* C10: view_all_movies has returned two records.
C10_Witness ==
    /\ call.op = "view_all_movies"
    /\ Len(ret.rows) = 2

\* C11: a successful add_movie of a movie_id that is not stored and a non-empty
\* movie_name, followed by get_movie_by_id of the id it assigned, yields a
\* record whose eight fields are the arguments given, the optional ones that
\* were left out being empty.
C11_AddThenFind ==
    [][(/\ call.op = "add_movie" /\ ret.ok
        /\ call'.op = "get_movie_by_id"
        /\ call'.record_id = MaxOf(assigned))
       => /\ ret'.row # None
          /\ ret'.row.id = call'.record_id
          /\ \A given \in FieldGiven :
                call.m = Bind(given) =>
                    \A i \in 1..Len(Columns) :
                        ret'.row[Columns[i]] =
                            IF Columns[i] \in DOMAIN given
                            THEN given[Columns[i]] ELSE <<>>]_vars

\* C11: the record an add_movie has just stored, some of its optional fields
\* given and some left out, has been found by its id.
C11_Witness ==
    /\ call.op = "get_movie_by_id"
    /\ call.record_id = MaxOf(assigned)
    /\ ret.row # None
    /\ ret.row.director # <<>>
    /\ ret.row.cast = <<>>

\* C12: a successful update_movie leaves the record of record_id with its id and
\* with the eight fields the call gave, the optional ones that were left out
\* being empty, and leaves every other record, and the number of records, as
\* they were.
C12_UpdateReplaces ==
    [][(call'.op = "update_movie" /\ ret'.ok) =>
        /\ call'.record_id \in Ids(movies)
        /\ Ids(movies') = Ids(movies)
        /\ Cardinality(movies') = Cardinality(movies)
        /\ \A q \in movies : q.id # call'.record_id => q \in movies'
        /\ \A q \in movies' :
              q.id = call'.record_id =>
                  \A given \in FieldGiven :
                      call'.m = Bind(given) =>
                          \A i \in 1..Len(Columns) :
                              q[Columns[i]] =
                                  IF Columns[i] \in DOMAIN given
                                  THEN given[Columns[i]] ELSE <<>>]_vars

\* C12: an update_movie that gave some optional fields and left others out has
\* succeeded on one of two records.
C12_Witness ==
    /\ call.op = "update_movie"
    /\ ret.ok
    /\ Cardinality(movies) = 2
    /\ \E q \in movies :
          /\ q.id = call.record_id
          /\ q.director # <<>>
          /\ q.cast = <<>>

=============================================================================
